---- MODULE Spec2Model ----
(***************************************************************************)
(* Model of crypto_crowd_risk: the entry model (models.py), the risk       *)
(* calculator (calculator.py) and the SQLite entry store (database.py).    *)
(*                                                                         *)
(* Numbers.  Every float of the program is modelled as an integer number   *)
(* of thousandths (20.0 is 20000, 0.125 is 125).  The volatility inputs    *)
(* are chosen so that every value lying exactly half-way between two       *)
(* 2-decimal values is a multiple of 1/8, which a binary float holds       *)
(* exactly; on such values Python's round(x, 2) rounds half to even.       *)
(*                                                                         *)
(* Optional values.  A Python value that may be None, and an SQL column    *)
(* that may be NULL, is the empty tuple << >> when absent and the          *)
(* one-element tuple <<v>> when present.                                   *)
(*                                                                         *)
(* Text.  An ISO date string "YYYY-MM-DD" is modelled by the number        *)
(* YYYYMMDD made of its digits: two ISO strings compare (as TEXT) the way  *)
(* these numbers compare.  Other strings are TLA+ strings; their equality  *)
(* is character for character.                                             *)
(***************************************************************************)
EXTENDS Integers, Sequences, FiniteSets, TLC

VARIABLES
    dirExists,        \* the parent directory of db_path exists
    tableExists,      \* the file holds the crypto_risk_entries table
    rows,             \* the table's rows, in rowid order
    sqlite_sequence,  \* AUTOINCREMENT: largest entry_id ever assigned
    entry,            \* the caller's in-memory CryptoRiskEntry object
    ret,              \* the last call: [op, arg, val]
    added,            \* history of add_entry calls: [id, fields], oldest first
    jsonFile,         \* content of the export destination (None: no file)
    call,             \* the call in progress, where a call is taken step by step
    entries,          \* the caller's in-memory list of entries
    handles           \* open handles: connections to the file, export files

vars == <<dirExists, tableExists, rows, sqlite_sequence, entry, ret, added, jsonFile, call, entries, handles>>

storeVars == <<dirExists, tableExists, rows, sqlite_sequence, added, jsonFile>>

callVars == <<call, entries, handles>>

\* ------------------------------------------------------------------------
\* Bounds
\* ------------------------------------------------------------------------
MaxRows == 3

\* ------------------------------------------------------------------------
\* Inputs
\* ------------------------------------------------------------------------
Dates == {[year |-> 2024, month |-> 1, day |-> 15], [year |-> 2024, month |-> 12, day |-> 3]}

Names == {"Bitcoin", "bitcoin", "Bit"}

\* thousandths; 125 and 375 are exact halves of a hundredth
Volatilities == {-50000, -125, 0, 125, 375, 12346, 15000, 29999, 30000, 50000, 999000}

\* ------------------------------------------------------------------------
\* Helpers
\* ------------------------------------------------------------------------
None == << >>

Some(v) == <<v>>

Min(a, b) == IF a <= b THEN a ELSE b

Max(a, b) == IF a >= b THEN a ELSE b

\* ------------------------------------------------------------------------
\* models.py
\* ------------------------------------------------------------------------
\* class RiskLevel(Enum): member name |-> value
RiskLevel == [LOW |-> "low", MEDIUM |-> "medium", HIGH |-> "high", CRITICAL |-> "critical"]

\* class CrowdSentiment(Enum): member name |-> value
CrowdSentiment == [BULLISH |-> "bullish", NEUTRAL |-> "neutral", BEARISH |-> "bearish"]

\* Enum(value): the member whose value is v, or ValueError
EnumByValue(enum, v) ==
    IF \E m \in DOMAIN enum : enum[m] = v
    THEN CHOOSE m \in DOMAIN enum : enum[m] = v
    ELSE "ValueError"

\* date.isoformat()
isoformat(d) == d.year * 10000 + d.month * 100 + d.day

\* date.fromisoformat()
fromisoformat(s) == [year |-> s \div 10000, month |-> (s \div 100) % 100, day |-> s % 100]

\* dict.get(key, default)
dict_get(data, key, default) == IF key \in DOMAIN data THEN data[key] ELSE default

\* the dataclass constructor (field order as declared)
CryptoRiskEntry(cryptocurrency, risk_level, reporter, report_date, description, market_cap, volatility_index, crowd_sentiment, risk_score, entry_id) ==
    [cryptocurrency |-> cryptocurrency, risk_level |-> risk_level,
     reporter |-> reporter, report_date |-> report_date,
     description |-> description, market_cap |-> market_cap,
     volatility_index |-> volatility_index, crowd_sentiment |-> crowd_sentiment,
     risk_score |-> risk_score, entry_id |-> entry_id]

\* variant: the enumerations written as their member names
to_dict_names(e) ==
    [entry_id |-> e.entry_id,
     cryptocurrency |-> e.cryptocurrency,
     risk_level |-> e.risk_level,
     reporter |-> e.reporter,
     report_date |-> isoformat(e.report_date),
     description |-> e.description,
     market_cap |-> e.market_cap,
     volatility_index |-> e.volatility_index,
     crowd_sentiment |-> e.crowd_sentiment,
     risk_score |-> e.risk_score]

\* variant: an absent sentiment written as a sentinel string
to_dict_sentinel(e) ==
    [entry_id |-> e.entry_id,
     cryptocurrency |-> e.cryptocurrency,
     risk_level |-> RiskLevel[e.risk_level],
     reporter |-> e.reporter,
     report_date |-> isoformat(e.report_date),
     description |-> e.description,
     market_cap |-> e.market_cap,
     volatility_index |-> e.volatility_index,
     crowd_sentiment |-> IF e.crowd_sentiment # None
                         THEN Some(CrowdSentiment[e.crowd_sentiment[1]])
                         ELSE Some("none"),
     risk_score |-> e.risk_score]

\* CryptoRiskEntry.to_dict
to_dict(e) ==
    [entry_id |-> e.entry_id,
     cryptocurrency |-> e.cryptocurrency,
     risk_level |-> RiskLevel[e.risk_level],
     reporter |-> e.reporter,
     report_date |-> isoformat(e.report_date),
     description |-> e.description,
     market_cap |-> e.market_cap,
     volatility_index |-> e.volatility_index,
     crowd_sentiment |-> IF e.crowd_sentiment # None
                         THEN Some(CrowdSentiment[e.crowd_sentiment[1]])
                         ELSE None,
     risk_score |-> e.risk_score]

\* CryptoRiskEntry.from_dict: the entry, or the exception the call raises.
\* The keyword arguments are evaluated in the order written: a missing key
\* raises KeyError, a string that is no value of the enumeration ValueError.
from_dict(data) ==
    LET sentiment == dict_get(data, "crowd_sentiment", None)
        \* "if data.get('crowd_sentiment')": None and "" are falsy
        given == sentiment # None /\ sentiment # Some("")
    IN  IF "cryptocurrency" \notin DOMAIN data THEN [exception |-> "KeyError"]
        ELSE IF "risk_level" \notin DOMAIN data THEN [exception |-> "KeyError"]
        ELSE IF EnumByValue(RiskLevel, data.risk_level) = "ValueError"
             THEN [exception |-> "ValueError"]
        ELSE IF "reporter" \notin DOMAIN data THEN [exception |-> "KeyError"]
        ELSE IF "report_date" \notin DOMAIN data THEN [exception |-> "KeyError"]
        ELSE IF given /\ EnumByValue(CrowdSentiment, sentiment[1]) = "ValueError"
             THEN [exception |-> "ValueError"]
        ELSE CryptoRiskEntry(
                 data.cryptocurrency,
                 EnumByValue(RiskLevel, data.risk_level),
                 data.reporter,
                 fromisoformat(data.report_date),
                 dict_get(data, "description", ""),
                 dict_get(data, "market_cap", 0),
                 dict_get(data, "volatility_index", 0),
                 IF given THEN Some(EnumByValue(CrowdSentiment, sentiment[1])) ELSE None,
                 dict_get(data, "risk_score", 0),
                 dict_get(data, "entry_id", None))

\* ------------------------------------------------------------------------
\* calculator.py
\* ------------------------------------------------------------------------
\* RiskCalculator.RISK_LEVEL_SCORES
RISK_LEVEL_SCORES == [LOW |-> 20000, MEDIUM |-> 45000, HIGH |-> 70000, CRITICAL |-> 90000]

\* variant: the two signs exchanged
SENTIMENT_FACTORS_swapped == [BULLISH |-> 10000, NEUTRAL |-> 0, BEARISH |-> -10000]

\* RiskCalculator.SENTIMENT_FACTORS
SENTIMENT_FACTORS == [BULLISH |-> -10000, NEUTRAL |-> 0, BEARISH |-> 10000]

\* round(x, 2): to the nearest hundredth, an exact half to the even one
round2(x) ==
    LET q == x \div 10
        r == x % 10
    IN  IF r < 5 THEN q * 10
        ELSE IF r > 5 THEN (q + 1) * 10
        ELSE IF q % 2 = 0 THEN q * 10 ELSE (q + 1) * 10

\* variant: a score the entry already carries returned as it is
calculate_risk_score_cached(e) ==
    IF e.risk_score # 0 THEN e.risk_score
    ELSE LET base_score == RISK_LEVEL_SCORES[e.risk_level]
             volatility_factor == Min(e.volatility_index, 30000)
             sentiment_factor == IF e.crowd_sentiment # None
                                 THEN SENTIMENT_FACTORS[e.crowd_sentiment[1]]
                                 ELSE 0
             risk_score == base_score + volatility_factor + sentiment_factor
         IN  round2(Max(0, Min(100000, risk_score)))

\* variant: the volatility taken as it is, without the cap of 30 points
calculate_risk_score_uncapped(e) ==
    LET base_score == RISK_LEVEL_SCORES[e.risk_level]
        volatility_factor == e.volatility_index
        sentiment_factor == IF e.crowd_sentiment # None
                            THEN SENTIMENT_FACTORS[e.crowd_sentiment[1]]
                            ELSE 0
        risk_score == base_score + volatility_factor + sentiment_factor
    IN  round2(Max(0, Min(100000, risk_score)))

\* variant: the upper clamp left out
calculate_risk_score_unclamped(e) ==
    LET base_score == RISK_LEVEL_SCORES[e.risk_level]
        volatility_factor == Min(e.volatility_index, 30000)
        sentiment_factor == IF e.crowd_sentiment # None
                            THEN SENTIMENT_FACTORS[e.crowd_sentiment[1]]
                            ELSE 0
        risk_score == base_score + volatility_factor + sentiment_factor
    IN  round2(Max(0, risk_score))

\* RiskCalculator.calculate_risk_score
calculate_risk_score(e) ==
    LET base_score == RISK_LEVEL_SCORES[e.risk_level]
        volatility_factor == Min(e.volatility_index, 30000)
        sentiment_factor == IF e.crowd_sentiment # None
                            THEN SENTIMENT_FACTORS[e.crowd_sentiment[1]]
                            ELSE 0
        risk_score == base_score + volatility_factor + sentiment_factor
    IN  round2(Max(0, Min(100000, risk_score)))

\* variant: an exact half rounded up
round2_ratio_half_up(num, den) ==
    LET q == num \div (10 * den)
        r == num % (10 * den)
    IN  IF 2 * r < 10 * den THEN q * 10 ELSE (q + 1) * 10

\* round(num / den, 2) for den > 0, on the exact quotient
round2_ratio(num, den) ==
    LET q == num \div (10 * den)
        r == num % (10 * den)
    IN  IF 2 * r < 10 * den THEN q * 10
        ELSE IF 2 * r > 10 * den THEN (q + 1) * 10
        ELSE IF q % 2 = 0 THEN q * 10 ELSE (q + 1) * 10

\* sum(entry.risk_score for entry in entries)
RECURSIVE total_score(_)
total_score(es) ==
    IF es = << >> THEN 0 ELSE total_score(SubSeq(es, 1, Len(es) - 1)) + es[Len(es)].risk_score

\* variant: every score computed anew from the entry's other fields
calculate_average_risk_recomputed(es) ==
    IF es = << >> THEN 0
    ELSE round2_ratio(
             total_score([i \in DOMAIN es |->
                              [es[i] EXCEPT !.risk_score = calculate_risk_score(es[i])]]),
             Len(es))

\* RiskCalculator.calculate_average_risk
calculate_average_risk(es) ==
    IF es = << >> THEN 0 ELSE round2_ratio(total_score(es), Len(es))

\* ------------------------------------------------------------------------
\* database.py
\* ------------------------------------------------------------------------
NULL == << >>

\* variant: the table dropped and created again
create_table_fresh(exists, rs) == << >>

\* Database._create_table: CREATE TABLE IF NOT EXISTS on the table's rows
create_table(exists, rs) == IF exists THEN rs ELSE << >>

\* variant: the id counter set back whenever the table is ensured
create_sequence_reset(exists, seq) == 0

\* CREATE TABLE IF NOT EXISTS on the table's AUTOINCREMENT counter: a new
\* table starts it at 0, an existing table keeps it
create_sequence(exists, seq) == IF exists THEN seq ELSE 0

\* variant: the id taken from a counter that is never advanced
next_entry_id_stuck(seq) == 1

\* INTEGER PRIMARY KEY AUTOINCREMENT: one more than the largest id ever used
next_entry_id(seq) == seq + 1

\* variant: the row written under the id the entry carries, when it has one
insert_row_own_id(e, id) ==
    [entry_id |-> IF e.entry_id # None THEN e.entry_id[1] ELSE id,
     cryptocurrency |-> e.cryptocurrency,
     risk_level |-> RiskLevel[e.risk_level],
     reporter |-> e.reporter,
     report_date |-> isoformat(e.report_date),
     description |-> Some(e.description),
     market_cap |-> Some(e.market_cap),
     volatility_index |-> Some(e.volatility_index),
     crowd_sentiment |-> IF e.crowd_sentiment # None
                         THEN Some(CrowdSentiment[e.crowd_sentiment[1]])
                         ELSE NULL,
     risk_score |-> Some(e.risk_score)]

\* variant: the volatility column bound to the market_cap parameter
insert_row_shifted(e, id) ==
    [entry_id |-> id,
     cryptocurrency |-> e.cryptocurrency,
     risk_level |-> RiskLevel[e.risk_level],
     reporter |-> e.reporter,
     report_date |-> isoformat(e.report_date),
     description |-> Some(e.description),
     market_cap |-> Some(e.market_cap),
     volatility_index |-> Some(e.market_cap),
     crowd_sentiment |-> IF e.crowd_sentiment # None
                         THEN Some(CrowdSentiment[e.crowd_sentiment[1]])
                         ELSE NULL,
     risk_score |-> Some(e.risk_score)]

\* Database.add_entry: the row the INSERT statement writes for entry e
insert_row(e, id) ==
    [entry_id |-> id,
     cryptocurrency |-> e.cryptocurrency,
     risk_level |-> RiskLevel[e.risk_level],
     reporter |-> e.reporter,
     report_date |-> isoformat(e.report_date),
     description |-> Some(e.description),
     market_cap |-> Some(e.market_cap),
     volatility_index |-> Some(e.volatility_index),
     crowd_sentiment |-> IF e.crowd_sentiment # None
                         THEN Some(CrowdSentiment[e.crowd_sentiment[1]])
                         ELSE NULL,
     risk_score |-> Some(e.risk_score)]

\* "row[i] or ''": NULL and the empty string are falsy
or_text(v) == IF v = NULL \/ v = Some("") THEN "" ELSE v[1]

\* variant: NULL handed on as a value that is not the default
or_real_unset(v) == IF v = NULL THEN 0 - 1 ELSE v[1]

\* "row[i] or 0.0": NULL and zero are falsy
or_real(v) == IF v = NULL \/ v = Some(0) THEN 0 ELSE v[1]

\* Database._row_to_entry: the entry, or the exception the call raises
row_to_entry(row) ==
    LET given == row.crowd_sentiment # NULL /\ row.crowd_sentiment # Some("")
    IN  IF \/ EnumByValue(RiskLevel, row.risk_level) = "ValueError"
           \/ given /\ EnumByValue(CrowdSentiment, row.crowd_sentiment[1]) = "ValueError"
        THEN [exception |-> "ValueError"]
        ELSE CryptoRiskEntry(
                 row.cryptocurrency,
                 EnumByValue(RiskLevel, row.risk_level),
                 row.reporter,
                 fromisoformat(row.report_date),
                 or_text(row.description),
                 or_real(row.market_cap),
                 or_real(row.volatility_index),
                 IF given THEN Some(EnumByValue(CrowdSentiment, row.crowd_sentiment[1])) ELSE None,
                 or_real(row.risk_score),
                 Some(row.entry_id))

\* variant: a row put in front of the rows with its own date (the order an
\* index scan gives)
sorter_position_unstable(sorted, d) ==
    Cardinality({i \in DOMAIN sorted : sorted[i].report_date > d})

\* where the sorter puts a row with date d among rows already sorted
\* descending: behind every row whose date is not smaller (a stable sort)
sorter_position(sorted, d) == Cardinality({i \in DOMAIN sorted : sorted[i].report_date >= d})

\* ORDER BY report_date DESC over a scan of the table in rowid order.  There
\* is no index on report_date, so SQLite sorts the scanned rows with its
\* sorter, a stable merge sort: rows with equal dates stay in scan order.
RECURSIVE order_by_report_date_desc(_)
order_by_report_date_desc(rs) ==
    IF rs = << >> THEN << >>
    ELSE LET n == Len(rs)
             sorted == order_by_report_date_desc(SubSeq(rs, 1, n - 1))
             k == sorter_position(sorted, rs[n].report_date)
         IN  SubSeq(sorted, 1, k) \o <<rs[n]>> \o SubSeq(sorted, k + 1, n - 1)

\* str.lower on the names in use
lower == [Bitcoin |-> "bitcoin", bitcoin |-> "bitcoin", Bit |-> "bit"]

\* variant: the comparison made without regard to case
where_cryptocurrency_nocase(rs, name) ==
    SelectSeq(rs, LAMBDA r : lower[r.cryptocurrency] = lower[name])

\* WHERE cryptocurrency = ? (BINARY collation: character for character)
where_cryptocurrency(rs, name) == SelectSeq(rs, LAMBDA r : r.cryptocurrency = name)

\* WHERE entry_id = ? ; fetchone()
fetch_by_id(rs, id) ==
    LET found == SelectSeq(rs, LAMBDA r : r.entry_id = id)
    IN  IF found = << >> THEN None ELSE Some(found[1])

\* [self._row_to_entry(row) for row in rows]
rows_to_entries(rs) == [i \in 1..Len(rs) |-> row_to_entry(rs[i])]

\* a result of from_dict or _row_to_entry that is an exception, not an entry
IsException(v) == "exception" \in DOMAIN v

\* the exception a list comprehension over the rows raises: that of the
\* first row whose conversion fails; None when every row converts
first_exception(es) ==
    LET bad == {i \in DOMAIN es : IsException(es[i])}
    IN  IF bad = {} THEN None
        ELSE Some(es[CHOOSE i \in bad : \A j \in bad : i <= j].exception)

\* what a call hands back to its caller: the value it returns, or (with no
\* value) the exception that leaves it
Outcome(op, arg, val, exc) ==
    [op |-> op, arg |-> arg, val |-> IF exc = None THEN val ELSE None, raised |-> exc]

\* variant: the row converted without the "if row" test
get_entry_unchecked(rs, id) ==
    LET row == fetch_by_id(rs, id)
    IN  IF row # None THEN Some(row_to_entry(row[1])) ELSE Some([exception |-> "TypeError"])

\* result of Database.get_entry
get_entry(rs, id) ==
    LET row == fetch_by_id(rs, id)
    IN  IF row # None THEN Some(row_to_entry(row[1])) ELSE None

\* result of Database.get_all_entries
get_all_entries(rs) == rows_to_entries(order_by_report_date_desc(rs))

\* result of Database.get_entries_by_crypto
get_entries_by_crypto(rs, name) ==
    rows_to_entries(order_by_report_date_desc(where_cryptocurrency(rs, name)))

\* variant: the names compared character for character
get_risk_by_cryptocurrency_exact(es, cryptocurrency) ==
    SelectSeq(es, LAMBDA e : e.cryptocurrency = cryptocurrency)

\* RiskCalculator.get_risk_by_cryptocurrency: a new list, built by a list
\* comprehension over the caller's list
get_risk_by_cryptocurrency(es, cryptocurrency) ==
    SelectSeq(es, LAMBDA e : lower[e.cryptocurrency] = lower[cryptocurrency])

\* ------------------------------------------------------------------------
\* Entries the callers construct
\* ------------------------------------------------------------------------
Sentiments == {None} \cup {Some(s) : s \in DOMAIN CrowdSentiment}

\* calculator and model inputs
Entries ==
    [cryptocurrency : {"Bitcoin", "bitcoin"}, risk_level : DOMAIN RiskLevel,
     reporter : {"alice"}, report_date : Dates, description : {"", "note"},
     market_cap : {0, 1500000}, volatility_index : Volatilities,
     crowd_sentiment : Sentiments, risk_score : {0, 55125, 999000},
     entry_id : {None, Some(0), Some(7)}]

\* the optional fields of the entries handed to the store: the defaults,
\* with a score that needs rounding
Plain ==
    [risk_level |-> "LOW", description |-> "", market_cap |-> 0,
     volatility_index |-> 125, crowd_sentiment |-> None,
     risk_score |-> 0, entry_id |-> None]

\* every optional field set, a caller-set score and the id of a stored row
Full ==
    [risk_level |-> "CRITICAL", description |-> "note", market_cap |-> 1500000,
     volatility_index |-> 999000, crowd_sentiment |-> Some("BEARISH"),
     risk_score |-> 999000, entry_id |-> Some(1)]

\* Plain under both names and both dates, Full under one date per name
StoreEntries ==
    {CryptoRiskEntry(t[1], t[3].risk_level, "alice", t[2], t[3].description,
                     t[3].market_cap, t[3].volatility_index, t[3].crowd_sentiment,
                     t[3].risk_score, t[3].entry_id) :
         t \in {u \in {"Bitcoin", "bitcoin"} \X Dates \X {Plain, Full} :
                    u[3] = Full => ((u[1] = "Bitcoin") <=> (u[2].month = 1))}}

NoCall == [op |-> "none", arg |-> None, val |-> None]

Idle == [op |-> "idle"]

\* no connection and no file open.  The handles are followed in SpecHandles;
\* the other specifications leave them out
NoHandles == [connections |-> 0, files |-> 0]

\* ------------------------------------------------------------------------
\* The store: no Database object yet, no table in the file
\* ------------------------------------------------------------------------
Init ==
    /\ dirExists \in BOOLEAN
    /\ tableExists = FALSE
    /\ rows = << >>
    /\ sqlite_sequence = 0
    /\ entry \in StoreEntries
    /\ ret = NoCall
    /\ added = << >>
    /\ jsonFile = None
    /\ call = Idle
    /\ entries = << >>
    /\ handles = NoHandles

\* Database.__init__: a Database object on the file (the first one, or a
\* further one on the file that holds the table already)
DatabaseInit ==
    /\ call = Idle
    /\ dirExists' = TRUE
    /\ tableExists' = TRUE
    /\ rows' = create_table(tableExists, rows)
    /\ sqlite_sequence' = create_sequence(tableExists, sqlite_sequence)
    /\ ret' = [op |-> "Database", arg |-> tableExists, val |-> None, raised |-> None]
    /\ UNCHANGED <<entry, added, jsonFile, callVars>>

\* the fields of an entry other than risk_score and entry_id
fields_of(e) == [f \in DOMAIN e \ {"risk_score", "entry_id"} |-> e[f]]

\* variant: the row written from the entry as the caller passed it
AddEntry_caller_score(e) ==
    /\ call = Idle
    /\ tableExists
    /\ Len(rows) < MaxRows
    /\ LET scored == [e EXCEPT !.risk_score = calculate_risk_score(e)]
           id == next_entry_id(sqlite_sequence)
       IN  /\ entry' = scored
           /\ rows' = Append(rows, insert_row(e, id))
           /\ sqlite_sequence' = id
           /\ ret' = [op |-> "add_entry", arg |-> e, val |-> id,
                      raised |-> None,
                      reopened |-> (ret.op = "Database" /\ ret.arg = TRUE)]
           /\ added' = Append(added, [id |-> id, fields |-> fields_of(e)])
    /\ UNCHANGED <<dirExists, tableExists, jsonFile, callVars>>

\* Database.add_entry(e); "reopened": the Database object was constructed
\* on the existing file just before the call
AddEntry(e) ==
    /\ call = Idle
    /\ tableExists
    /\ Len(rows) < MaxRows
    /\ LET scored == [e EXCEPT !.risk_score = calculate_risk_score(e)]
           id == next_entry_id(sqlite_sequence)
       IN  /\ entry' = scored
           /\ rows' = Append(rows, insert_row(scored, id))
           /\ sqlite_sequence' = id
           /\ ret' = [op |-> "add_entry", arg |-> e, val |-> id,
                      raised |-> None,
                      reopened |-> (ret.op = "Database" /\ ret.arg = TRUE)]
           /\ added' = Append(added, [id |-> id, fields |-> fields_of(e)])
    /\ UNCHANGED <<dirExists, tableExists, jsonFile, callVars>>

\* Database.get_entry(id).  A reader opens a connection of its own and may
\* run while another call is in progress.
GetEntry(id) ==
    /\ tableExists
    /\ LET found == get_entry(rows, id)
       IN  ret' = Outcome("get_entry", id, found, first_exception(found))
    /\ UNCHANGED <<entry, storeVars, callVars>>

\* Database.get_all_entries()
GetAllEntries ==
    /\ tableExists
    /\ LET all == get_all_entries(rows)
       IN  ret' = Outcome("get_all_entries", None, all, first_exception(all))
    /\ UNCHANGED <<entry, storeVars, callVars>>

\* Database.get_entries_by_crypto(name)
GetEntriesByCrypto(name) ==
    /\ tableExists
    /\ LET found == get_entries_by_crypto(rows, name)
       IN  ret' = Outcome("get_entries_by_crypto", name, found, first_exception(found))
    /\ UNCHANGED <<entry, storeVars, callVars>>

\* variant: the entries taken in table order
export_data_table_order(rs) ==
    LET all == rows_to_entries(rs)
    IN  [i \in 1..Len(all) |-> to_dict(all[i])]

\* Database.export_to_json, lines 158-159: the list handed to json.dump
export_data(rs) ==
    LET all == get_all_entries(rs)
    IN  [i \in 1..Len(all) |-> to_dict(all[i])]

\* Database.export_to_json(filepath), a call that runs to its end.  A file
\* is [items, closed]: the objects written, and whether the array's closing
\* bracket is there (the text is a complete JSON array).
ExportToJson ==
    /\ call = Idle
    /\ tableExists
    /\ LET exc == first_exception(get_all_entries(rows))
       IN  /\ jsonFile' = IF exc = None
                          THEN Some([items |-> export_data(rows), closed |-> TRUE])
                          ELSE jsonFile
           /\ ret' = Outcome("export_to_json", None, None, exc)
    /\ UNCHANGED <<entry, dirExists, tableExists, rows, sqlite_sequence, added, callVars>>

\* what a caller may hand to add_entry: a newly constructed entry, the object
\* it added before, or the entry get_entry just returned
AddInputs ==
    StoreEntries \cup {entry}
        \cup (IF ret.op = "get_entry" /\ ret.val # None THEN {ret.val[1]} ELSE {})

\* the ids asked for: negative, zero, every id a row can have, one never
\* assigned
Ids == (0 - 1)..(MaxRows + 1)

Next ==
    \/ DatabaseInit
    \/ \E e \in AddInputs : AddEntry(e)
    \/ \E id \in Ids : GetEntry(id)
    \/ GetAllEntries
    \/ \E name \in Names : GetEntriesByCrypto(name)
    \/ ExportToJson

Spec == Init /\ [][Next]_vars

\* ------------------------------------------------------------------------
\* A store file whose rows another program wrote: the columns are untyped
\* TEXT/REAL with no CHECK constraint, so any string can stand in them
\* ------------------------------------------------------------------------
MaxExternalRows == 2

ExternalRows ==
    [entry_id : 1..MaxExternalRows, cryptocurrency : {"Bitcoin", "bitcoin"},
     risk_level : {"low", "", "extreme"}, reporter : {"alice"},
     report_date : {20240115}, description : {NULL}, market_cap : {NULL},
     volatility_index : {NULL},
     crowd_sentiment : {NULL, Some("bullish"), Some(""), Some("moon")},
     risk_score : {NULL}]
        \cup
    [entry_id : 1..MaxExternalRows, cryptocurrency : {"Bitcoin", "bitcoin"},
     risk_level : {"low"}, reporter : {"alice"},
     report_date : {20240115}, description : {Some("note")},
     market_cap : {Some(1500000)}, volatility_index : {Some(15000)},
     crowd_sentiment : {NULL}, risk_score : {Some(35000)}]

InitRows ==
    /\ dirExists = TRUE
    /\ tableExists = TRUE
    /\ rows \in {rs \in UNION {[1..n -> ExternalRows] : n \in 1..MaxExternalRows} :
                     \A i \in DOMAIN rs : rs[i].entry_id = i}
    /\ sqlite_sequence = Len(rows)
    /\ entry = CHOOSE e \in StoreEntries : TRUE
    /\ ret = NoCall
    /\ added = << >>
    /\ jsonFile = None
    /\ call = Idle
    /\ entries = << >>
    /\ handles = NoHandles

NextRows ==
    \/ \E id \in Ids : GetEntry(id)
    \/ GetAllEntries
    \/ \E name \in Names : GetEntriesByCrypto(name)
    \/ ExportToJson

SpecRows == InitRows /\ [][NextRows]_vars

\* ------------------------------------------------------------------------
\* The store on a medium that can fail: add_entry taken statement by
\* statement, readers running in between, and every connect, execute and
\* commit able to raise
\* ------------------------------------------------------------------------
MaxTxnRows == 2

TxnEntries == {e \in StoreEntries : e.cryptocurrency = "Bitcoin" /\ e.report_date.month = 1}

InitTxn ==
    /\ dirExists \in BOOLEAN
    /\ tableExists = FALSE
    /\ rows = << >>
    /\ sqlite_sequence = 0
    /\ entry \in TxnEntries
    /\ ret = NoCall
    /\ added = << >>
    /\ jsonFile = None
    /\ call = Idle
    /\ entries = << >>
    /\ handles = NoHandles

\* a call that an exception of the medium leaves: "fault" is the statement
\* that raised, and no handler in database.py stands between it and the caller
Failure(op, arg, exc, fault) ==
    [op |-> op, arg |-> arg, val |-> None, raised |-> Some(exc), fault |-> fault]

\* Database.__init__ failing: mkdir raises OSError with nothing done, or
\* sqlite3.connect raises with the directory made
DatabaseInitFails(fault) ==
    /\ call = Idle
    /\ dirExists' = (dirExists \/ fault = "connect")
    /\ ret' = Failure("Database", tableExists,
                      IF fault = "mkdir" THEN "OSError" ELSE "sqlite3.OperationalError",
                      fault)
    /\ UNCHANGED <<tableExists, rows, sqlite_sequence, entry, added, jsonFile, callVars>>

\* get_entry, get_all_entries or get_entries_by_crypto failing: connect or
\* execute raises sqlite3.OperationalError (unreachable file, locked database)
ReaderFails(op, arg) ==
    /\ tableExists
    /\ ret' = Failure(op, arg, "sqlite3.OperationalError", "connect")
    /\ UNCHANGED <<entry, storeVars, callVars>>

\* add_entry(e), line 60: the score is assigned to the caller's entry before
\* any connection is opened
AddCall(e) ==
    /\ call = Idle
    /\ tableExists
    /\ Len(rows) < MaxTxnRows
    /\ entry' = [e EXCEPT !.risk_score = calculate_risk_score(e)]
    /\ call' = [op |-> "add_entry", pc |-> "connect", arg |-> e, pending |-> << >>,
                rows0 |-> rows,
                reopened |-> (ret.op = "Database" /\ ret.raised = None /\ ret.arg = TRUE)]
    /\ UNCHANGED <<storeVars, ret, entries, handles>>

\* add_entry, line 62: sqlite3.connect
AddConnect ==
    /\ call.op = "add_entry"
    /\ call.pc = "connect"
    /\ call' = [call EXCEPT !.pc = "execute"]
    /\ UNCHANGED <<storeVars, entry, ret, entries, handles>>

\* variant: every statement committed as it runs
AddInsert_autocommit ==
    /\ call.op = "add_entry"
    /\ call.pc = "execute"
    /\ rows' = Append(rows, insert_row(entry, next_entry_id(sqlite_sequence)))
    /\ call' = [call EXCEPT !.pc = "commit"]
    /\ UNCHANGED <<dirExists, tableExists, sqlite_sequence, added, jsonFile, entry, ret, entries, handles>>

\* add_entry, lines 64-79: the INSERT runs inside the transaction the
\* connection opened for it; its row is not in the table other connections
\* read until the commit
AddInsert ==
    /\ call.op = "add_entry"
    /\ call.pc = "execute"
    /\ call' = [call EXCEPT !.pc = "commit",
                            !.pending = <<insert_row(entry, next_entry_id(sqlite_sequence))>>]
    /\ UNCHANGED <<storeVars, entry, ret, entries, handles>>

\* add_entry, lines 80-81: commit, return cursor.lastrowid
AddCommit ==
    /\ call.op = "add_entry"
    /\ call.pc = "commit"
    /\ rows' = rows \o call.pending
    /\ sqlite_sequence' = next_entry_id(sqlite_sequence)
    /\ added' = Append(added, [id |-> next_entry_id(sqlite_sequence),
                               fields |-> fields_of(call.arg)])
    /\ ret' = [op |-> "add_entry", arg |-> call.arg, val |-> next_entry_id(sqlite_sequence),
               raised |-> None, reopened |-> call.reopened]
    /\ call' = Idle
    /\ UNCHANGED <<dirExists, tableExists, jsonFile, entry, entries, handles>>

\* add_entry failing at the statement it has reached: the exception leaves
\* the with block, whose exit rolls the transaction back, and reaches the
\* caller as it is; "rows0" is the table as it was when the call began
AddFails ==
    /\ call.op = "add_entry"
    /\ ret' = [op |-> "add_entry", arg |-> call.arg, val |-> None,
               raised |-> Some("sqlite3.OperationalError"), fault |-> call.pc,
               rows0 |-> call.rows0]
    /\ call' = Idle
    /\ UNCHANGED <<storeVars, entry, entries, handles>>

NextTxn ==
    \/ DatabaseInit
    \/ \E fault \in {"mkdir", "connect"} : DatabaseInitFails(fault)
    \/ \E e \in TxnEntries : AddCall(e)
    \/ AddConnect
    \/ AddInsert
    \/ AddCommit
    \/ AddFails
    \/ \E id \in Ids : GetEntry(id)
    \/ GetAllEntries
    \/ \E name \in Names : GetEntriesByCrypto(name)
    \/ \E id \in Ids : ReaderFails("get_entry", id)
    \/ ReaderFails("get_all_entries", None)
    \/ \E name \in Names : ReaderFails("get_entries_by_crypto", name)

SpecTxn == InitTxn /\ [][NextTxn]_vars

\* ------------------------------------------------------------------------
\* export_to_json taken step by step: open(filepath, 'w') truncates the
\* destination, json.dump writes the array piece by piece, leaving the with
\* block closes the file; any of the steps can raise OSError
\* ------------------------------------------------------------------------
MaxExportRows == 2

ExportEntries == {e \in StoreEntries : e.cryptocurrency = "Bitcoin"}

\* the tables add_entry can have built from ExportEntries
ExportTables ==
    {[i \in DOMAIN es |->
          insert_row([es[i] EXCEPT !.risk_score = calculate_risk_score(es[i])], i)] :
         es \in UNION {[1..n -> ExportEntries] : n \in 0..MaxExportRows}}

Complete(data) == Some([items |-> data, closed |-> TRUE])

\* the destination: absent, or left by an export made when the table held
\* its first k rows
InitExport ==
    /\ dirExists = TRUE
    /\ tableExists = TRUE
    /\ rows \in ExportTables
    /\ sqlite_sequence = Len(rows)
    /\ entry = CHOOSE e \in StoreEntries : TRUE
    /\ ret = NoCall
    /\ added = << >>
    /\ jsonFile \in {None} \cup {Complete(export_data(SubSeq(rows, 1, k))) : k \in 0..Len(rows)}
    /\ call = Idle
    /\ entries = << >>
    /\ handles = NoHandles

\* lines 158-159: the entries read and converted, before the file is touched
ExportCall ==
    /\ call = Idle
    /\ tableExists
    /\ first_exception(get_all_entries(rows)) = None
    /\ call' = [op |-> "export_to_json", pc |-> "open", data |-> export_data(rows),
                file0 |-> jsonFile]
    /\ UNCHANGED <<storeVars, entry, ret, entries, handles>>

\* line 161: open(filepath, 'w') creates the file or cuts it to length zero
ExportOpen ==
    /\ call.op = "export_to_json"
    /\ call.pc = "open"
    /\ jsonFile' = Some([items |-> << >>, closed |-> FALSE])
    /\ call' = [call EXCEPT !.pc = "dump"]
    /\ UNCHANGED <<dirExists, tableExists, rows, sqlite_sequence, added, entry, ret, entries, handles>>

\* line 162: json.dump writes the next object of the array to the file
ExportDump ==
    /\ call.op = "export_to_json"
    /\ call.pc = "dump"
    /\ Len(jsonFile[1].items) < Len(call.data)
    /\ jsonFile' = Some([items |-> Append(jsonFile[1].items,
                                            call.data[Len(jsonFile[1].items) + 1]),
                         closed |-> FALSE])
    /\ UNCHANGED <<dirExists, tableExists, rows, sqlite_sequence, added, entry, ret, callVars>>

\* line 162 and the end of the with block: the closing bracket written, the
\* file closed, the call returns
ExportClose ==
    /\ call.op = "export_to_json"
    /\ call.pc = "dump"
    /\ Len(jsonFile[1].items) = Len(call.data)
    /\ jsonFile' = Some([jsonFile[1] EXCEPT !.closed = TRUE])
    /\ ret' = Outcome("export_to_json", None, None, None)
    /\ call' = Idle
    /\ UNCHANGED <<dirExists, tableExists, rows, sqlite_sequence, added, entry, entries, handles>>

\* open or a write raising OSError: the with block closes the file and the
\* exception reaches the caller; what has been written stays
ExportFails ==
    /\ call.op = "export_to_json"
    /\ ret' = [op |-> "export_to_json", arg |-> None, val |-> None,
               raised |-> Some("OSError"), fault |-> call.pc,
               file0 |-> call.file0, data |-> call.data]
    /\ call' = Idle
    /\ UNCHANGED <<storeVars, entry, entries, handles>>

NextExport ==
    \/ ExportCall
    \/ ExportOpen
    \/ ExportDump
    \/ ExportClose
    \/ ExportFails

SpecExport == InitExport /\ [][NextExport]_vars

\* ------------------------------------------------------------------------
\* calculate_average_risk on a list of entries the caller holds
\* ------------------------------------------------------------------------
MaxEntries == 3

\* risk level, volatility and stored score; only the first stored score is
\* what calculate_risk_score gives for the entry.  The scores are multiples
\* of a quarter, so every mean that lies half-way between two hundredths is
\* an exact binary fraction
AvgProfiles ==
    {<<"LOW", 0, 20000>>, <<"LOW", 125, 20250>>, <<"LOW", 375, 20750>>,
     <<"MEDIUM", 0, 48000>>, <<"HIGH", 0, 71000>>, <<"CRITICAL", 999000, 0>>}

AvgEntries ==
    {CryptoRiskEntry("Bitcoin", t[1], "alice", [year |-> 2024, month |-> 1, day |-> 15],
                     "", 0, t[2], None, t[3], None) : t \in AvgProfiles}

InitAvg ==
    /\ dirExists = FALSE
    /\ tableExists = FALSE
    /\ rows = << >>
    /\ sqlite_sequence = 0
    /\ entry \in AvgEntries
    /\ ret = NoCall
    /\ added = << >>
    /\ jsonFile = None
    /\ call = Idle
    /\ entries \in UNION {[1..n -> AvgEntries] : n \in 0..MaxEntries}
    /\ handles = NoHandles

\* RiskCalculator.calculate_average_risk(entries)
CalculateAverageRisk ==
    /\ ret' = [op |-> "calculate_average_risk", arg |-> entries,
               val |-> calculate_average_risk(entries)]
    /\ UNCHANGED <<entry, storeVars, callVars>>


\* ------------------------------------------------------------------------
\* Two writers on one file: each has a Database object (a connection per
\* call) of its own and runs add_entry statement by statement.  SQLite lets
\* one connection at a time write: the INSERT takes the file's write lock,
\* which the connection holds until it commits or rolls back, and an INSERT
\* that finds the lock taken waits for the timeout and raises
\* sqlite3.OperationalError ("database is locked")
\* ------------------------------------------------------------------------
MaxWriterRows == 3

Writers == {1, 2}

\* the entry each writer adds: the writers are told apart by their entries
WriterEntry(w) ==
    CHOOSE e \in TxnEntries : (e.risk_level = "LOW") <=> (w = 1)

InitWriters ==
    /\ dirExists = TRUE
    /\ tableExists = TRUE
    /\ rows = << >>
    /\ sqlite_sequence = 0
    /\ entry = CHOOSE e \in StoreEntries : TRUE
    /\ ret = NoCall
    /\ added = << >>
    /\ jsonFile = None
    /\ call = [op |-> "writers", of |-> [w \in Writers |-> Idle], lock |-> None]
    /\ entries = << >>
    /\ handles = NoHandles

Active == {w \in Writers : call.of[w] # Idle}

\* add_entry(e) of writer w, line 60: the score assigned to the entry
WriterCall(w) ==
    /\ call.of[w] = Idle
    /\ Len(rows) + Cardinality(Active) < MaxWriterRows
    /\ call' = [call EXCEPT !.of[w] =
                    [op |-> "add_entry", pc |-> "connect", pending |-> << >>,
                     overlapped |-> FALSE,
                     arg |-> [WriterEntry(w) EXCEPT
                                  !.risk_score = calculate_risk_score(WriterEntry(w))]]]
    /\ UNCHANGED <<storeVars, entry, ret, entries, handles>>

\* line 62: sqlite3.connect
WriterConnect(w) ==
    /\ call.of[w] # Idle
    /\ call.of[w].pc = "connect"
    /\ call' = [call EXCEPT !.of[w].pc = "execute"]
    /\ UNCHANGED <<storeVars, entry, ret, entries, handles>>

\* variant: the INSERT run without taking the write lock
WriterInsert_unlocked(w) ==
    /\ call.of[w] # Idle
    /\ call.of[w].pc = "execute"
    /\ call' = [call EXCEPT
                    !.of[w].pc = "commit",
                    !.of[w].overlapped = (Active # {w}),
                    !.of[w].pending =
                        <<insert_row(call.of[w].arg, next_entry_id(sqlite_sequence))>>]
    /\ UNCHANGED <<storeVars, entry, ret, entries, handles>>

\* lines 64-79: the INSERT takes the write lock and, holding it, gives the
\* row the next id; "overlapped": the other writer's call is in progress
WriterInsert(w) ==
    /\ call.of[w] # Idle
    /\ call.of[w].pc = "execute"
    /\ call.lock = None
    /\ call' = [call EXCEPT
                    !.lock = Some(w),
                    !.of[w].pc = "commit",
                    !.of[w].overlapped = (Active # {w}),
                    !.of[w].pending =
                        <<insert_row(call.of[w].arg, next_entry_id(sqlite_sequence))>>]
    /\ UNCHANGED <<storeVars, entry, ret, entries, handles>>

\* lines 64-79 while the other writer holds the lock: the INSERT raises
WriterBusy(w) ==
    /\ call.of[w] # Idle
    /\ call.of[w].pc = "execute"
    /\ call.lock \notin {None, Some(w)}
    /\ ret' = [op |-> "add_entry", arg |-> WriterEntry(w), val |-> None,
               raised |-> Some("sqlite3.OperationalError"), fault |-> "execute",
               writer |-> w]
    /\ call' = [call EXCEPT !.of[w] = Idle]
    /\ UNCHANGED <<storeVars, entry, entries, handles>>

\* lines 80-81: commit; the row and the id counter reach the file, the lock
\* is released, cursor.lastrowid (the id this connection's INSERT gave) is
\* returned
WriterCommit(w) ==
    /\ call.of[w] # Idle
    /\ call.of[w].pc = "commit"
    /\ rows' = rows \o call.of[w].pending
    /\ sqlite_sequence' = call.of[w].pending[1].entry_id
    /\ added' = Append(added, [id |-> call.of[w].pending[1].entry_id,
                               fields |-> fields_of(WriterEntry(w)),
                               writer |-> w, overlapped |-> call.of[w].overlapped])
    /\ ret' = [op |-> "add_entry", arg |-> WriterEntry(w),
               val |-> call.of[w].pending[1].entry_id, raised |-> None, writer |-> w]
    /\ call' = [call EXCEPT !.of[w] = Idle,
                            !.lock = IF call.lock = Some(w) THEN None ELSE call.lock]
    /\ UNCHANGED <<dirExists, tableExists, jsonFile, entry, entries, handles>>

\* line 80 raising: the with block rolls the transaction back, which
\* releases the lock; the row and its id are gone
WriterRollback(w) ==
    /\ call.of[w] # Idle
    /\ call.of[w].pc = "commit"
    /\ ret' = [op |-> "add_entry", arg |-> WriterEntry(w), val |-> None,
               raised |-> Some("sqlite3.OperationalError"), fault |-> "commit",
               writer |-> w]
    /\ call' = [call EXCEPT !.of[w] = Idle,
                            !.lock = IF call.lock = Some(w) THEN None ELSE call.lock]
    /\ UNCHANGED <<storeVars, entry, entries, handles>>

NextWriters ==
    \E w \in Writers :
        \/ WriterCall(w)
        \/ WriterConnect(w)
        \/ WriterInsert(w)
        \/ WriterBusy(w)
        \/ WriterCommit(w)
        \/ WriterRollback(w)

SpecWriters == InitWriters /\ [][NextWriters]_vars

\* ------------------------------------------------------------------------
\* The handles the store operations open.  Every operation of database.py
\* runs inside "with sqlite3.connect(self.db_path) as conn"; leaving that
\* block commits or rolls back and does not close the connection, and no
\* operation calls conn.close(): the connection stays open until the
\* garbage collector finds the object.  export_to_json opens its file with
\* "with open(...)", which does close it.  What the calls read and write is
\* in the specifications above; here only the handles are followed
\* ------------------------------------------------------------------------
MaxHandles == 3

StoreOps ==
    {"Database", "add_entry", "get_entry", "get_all_entries", "get_entries_by_crypto",
     "export_to_json"}

InitHandles ==
    /\ dirExists = TRUE
    /\ tableExists = TRUE
    /\ rows = << >>
    /\ sqlite_sequence = 0
    /\ entry = CHOOSE e \in StoreEntries : TRUE
    /\ ret = NoCall
    /\ added = << >>
    /\ jsonFile = None
    /\ call = Idle
    /\ entries = << >>
    /\ handles = NoHandles

\* sqlite3.connect at the head of the with block
OpConnect(op) ==
    /\ call = Idle
    /\ handles.connections < MaxHandles
    /\ call' = [op |-> op, pc |-> "with"]
    /\ handles' = [handles EXCEPT !.connections = @ + 1]
    /\ UNCHANGED <<storeVars, entry, ret, entries>>

\* sqlite3.connect raising: there is no connection
OpConnectFails(op) ==
    /\ call = Idle
    /\ ret' = Failure(op, None, "sqlite3.OperationalError", "connect")
    /\ UNCHANGED <<storeVars, entry, callVars>>

\* export_to_json, line 161: get_all_entries has returned, the file is opened
OpOpenFile ==
    /\ call.op = "export_to_json"
    /\ call.pc = "with"
    /\ call' = [call EXCEPT !.pc = "file"]
    /\ handles' = [handles EXCEPT !.files = @ + 1]
    /\ UNCHANGED <<storeVars, entry, ret, entries>>

\* the handles after the with blocks are left: the file closed, the
\* connection as it was
after_with(h, pc) == [h EXCEPT !.files = IF pc = "file" THEN @ - 1 ELSE @]

\* the operation returns: the with block is left normally
OpReturn ==
    /\ call.op \in StoreOps
    /\ call.op = "export_to_json" => call.pc = "file"
    /\ handles' = after_with(handles, call.pc)
    /\ ret' = Outcome(call.op, None, None, None)
    /\ call' = Idle
    /\ UNCHANGED <<storeVars, entry, entries>>

\* the operation raises inside a with block
OpRaise ==
    /\ call.op \in StoreOps
    /\ handles' = after_with(handles, call.pc)
    /\ ret' = Failure(call.op, None,
                      IF call.pc = "file" THEN "OSError" ELSE "sqlite3.OperationalError",
                      call.pc)
    /\ call' = Idle
    /\ UNCHANGED <<storeVars, entry, entries>>

\* the connections the running operation still refers to
referenced == IF call # Idle /\ call.pc = "with" THEN 1 ELSE 0

\* the garbage collector runs: the connections nothing refers to are closed
CollectGarbage ==
    /\ handles.connections > referenced
    /\ handles' = [handles EXCEPT !.connections = referenced]
    /\ UNCHANGED <<storeVars, entry, ret, call, entries>>

NextHandles ==
    \/ \E op \in StoreOps : OpConnect(op)
    \/ \E op \in StoreOps : OpConnectFails(op)
    \/ OpOpenFile
    \/ OpReturn
    \/ OpRaise
    \/ CollectGarbage

SpecHandles == InitHandles /\ [][NextHandles]_vars

\* ------------------------------------------------------------------------
\* get_risk_by_cryptocurrency on a list of entries the caller holds
\* ------------------------------------------------------------------------
\* entries under every name, told apart by their entry_id
FilterEntries ==
    {CryptoRiskEntry(n, "LOW", "alice", [year |-> 2024, month |-> 1, day |-> 15],
                     "", 0, 0, None, 0, id) : n \in Names, id \in {None, Some(1)}}

InitFilter ==
    /\ dirExists = FALSE
    /\ tableExists = FALSE
    /\ rows = << >>
    /\ sqlite_sequence = 0
    /\ entry = CHOOSE e \in StoreEntries : TRUE
    /\ ret = NoCall
    /\ added = << >>
    /\ jsonFile = None
    /\ call = Idle
    /\ entries \in UNION {[1..n -> FilterEntries] : n \in 0..MaxEntries}
    /\ handles = NoHandles

\* RiskCalculator.get_risk_by_cryptocurrency(entries, name)
GetRiskByCryptocurrency(name) ==
    /\ ret' = [op |-> "get_risk_by_cryptocurrency", arg |-> name,
               val |-> get_risk_by_cryptocurrency(entries, name)]
    /\ UNCHANGED <<entry, storeVars, callVars>>

NextFilter == \E name \in Names : GetRiskByCryptocurrency(name)

SpecFilter == InitFilter /\ [][NextFilter]_vars

\* ------------------------------------------------------------------------
\* The pure functions of models.py and calculator.py applied to one entry
\* ------------------------------------------------------------------------
InitCalc ==
    /\ dirExists = FALSE
    /\ tableExists = FALSE
    /\ rows = << >>
    /\ sqlite_sequence = 0
    /\ entry \in Entries
    /\ ret = NoCall
    /\ added = << >>
    /\ jsonFile = None
    /\ call = Idle
    /\ entries = << >>
    /\ handles = NoHandles

\* RiskCalculator.calculate_risk_score(entry)
CalculateRiskScore ==
    /\ ret' = [op |-> "calculate_risk_score", arg |-> entry,
               val |-> calculate_risk_score(entry)]
    /\ UNCHANGED <<entry, storeVars, callVars>>

\* entry.to_dict()
ToDict ==
    /\ ret' = [op |-> "to_dict", arg |-> entry, val |-> to_dict(entry)]
    /\ UNCHANGED <<entry, storeVars, callVars>>

\* CryptoRiskEntry.from_dict(d) on the dictionary to_dict just returned
FromDict ==
    /\ ret.op = "to_dict"
    /\ ret' = [op |-> "from_dict", arg |-> ret.val, val |-> from_dict(ret.val)]
    /\ UNCHANGED <<entry, storeVars, callVars>>

\* ways a dictionary handed to from_dict can differ from what to_dict
\* writes: a required key missing, a string outside an enumeration
Damages ==
    {[drop |-> k] : k \in {"cryptocurrency", "risk_level", "reporter", "report_date"}}
        \cup {[set |-> "risk_level", to |-> v] : v \in {"", "extreme"}}
        \cup {[set |-> "crowd_sentiment", to |-> Some(v)] : v \in {"", "moon"}}

damaged(data, dmg) ==
    IF "drop" \in DOMAIN dmg
    THEN [k \in DOMAIN data \ {dmg.drop} |-> data[k]]
    ELSE [k \in DOMAIN data |-> IF k = dmg.set THEN dmg.to ELSE data[k]]

\* CryptoRiskEntry.from_dict(d) on a dictionary that to_dict did not write
FromDictDamaged(dmg) ==
    /\ ret.op = "to_dict"
    /\ ret' = [op |-> "from_dict", arg |-> damaged(ret.val, dmg),
               val |-> from_dict(damaged(ret.val, dmg))]
    /\ UNCHANGED <<entry, storeVars, callVars>>

NextCalc ==
    \/ CalculateRiskScore
    \/ ToDict
    \/ FromDict
    \/ \E dmg \in Damages : FromDictDamaged(dmg)

SpecCalc == InitCalc /\ [][NextCalc]_vars

\* the caller of calculate_average_risk also scores single entries
NextAvg ==
    \/ CalculateAverageRisk
    \/ CalculateRiskScore

SpecAvg == InitAvg /\ [][NextAvg]_vars

\* ------------------------------------------------------------------------
\* Properties
\* ------------------------------------------------------------------------
Scored == ret.op = "calculate_risk_score"

\* the sum of section 4.2, steps 1 to 4, written out from the tables of the
\* specification
SpecBase(level) ==
    CASE level = "LOW" -> 20000
      [] level = "MEDIUM" -> 45000
      [] level = "HIGH" -> 70000
      [] level = "CRITICAL" -> 90000

SpecSentiment(s) ==
    CASE s = None -> 0
      [] s = Some("BULLISH") -> -10000
      [] s = Some("NEUTRAL") -> 0
      [] s = Some("BEARISH") -> 10000

SpecClamped(e) ==
    LET v == IF e.volatility_index < 30000 THEN e.volatility_index ELSE 30000
        sum == SpecBase(e.risk_level) + v + SpecSentiment(e.crowd_sentiment)
    IN  IF sum < 0 THEN 0 ELSE IF sum > 100000 THEN 100000 ELSE sum

\* y is x rounded to 2 decimals: the nearest hundredth, and the even one
\* when x lies half-way between two
IsRounded(x, y) ==
    /\ y % 10 = 0
    /\ y - x \in -5..5
    /\ (y - x \in {-5, 5}) => (y \div 10) % 2 = 0

\* C1: calculate_risk_score returns a value between 0.0 and 100.0 for every
\* entry; CRITICAL with volatility 999 and BEARISH gives 100.0, LOW with
\* volatility 0 and BULLISH gives 10.0.
C1_ScoreInRange ==
    Scored =>
        /\ ret.val >= 0
        /\ ret.val <= 100000
        /\ (/\ ret.arg.risk_level = "CRITICAL"
            /\ ret.arg.volatility_index = 999000
            /\ ret.arg.crowd_sentiment = Some("BEARISH")) => ret.val = 100000
        /\ (/\ ret.arg.risk_level = "LOW"
            /\ ret.arg.volatility_index = 0
            /\ ret.arg.crowd_sentiment = Some("BULLISH")) => ret.val = 10000

C1_Witness ==
    /\ Scored
    /\ ret.arg.risk_level = "CRITICAL"
    /\ ret.arg.volatility_index = 999000
    /\ ret.arg.crowd_sentiment = Some("BEARISH")
    /\ ret.val = 100000

\* C2 as stated: calculate_risk_score equals the clamped sum
\* base + min(volatility_index, 30) + sentiment_factor.
C2_EqualsClampedSum == Scored => ret.val = SpecClamped(ret.arg)

\* C2 as amended: calculate_risk_score equals the clamped sum rounded to 2
\* decimals; an absent sentiment scores like NEUTRAL; with volatility 0 and
\* no sentiment the score is the base value of the level.
C2_EqualsRoundedClampedSum ==
    Scored =>
        /\ IsRounded(SpecClamped(ret.arg), ret.val)
        /\ ret.arg.crowd_sentiment = None =>
               ret.val = calculate_risk_score(
                             [ret.arg EXCEPT !.crowd_sentiment = Some("NEUTRAL")])
        /\ (ret.arg.volatility_index = 0 /\ ret.arg.crowd_sentiment = None) =>
               ret.val = SpecBase(ret.arg.risk_level)

C2_Witness ==
    /\ Scored
    /\ ret.arg.risk_level = "MEDIUM"
    /\ ret.arg.volatility_index = 375
    /\ ret.arg.crowd_sentiment = Some("BULLISH")
    /\ ret.val = 35380

LastRow == rows[Len(rows)]

\* C3: every stored row's risk_score is calculate_risk_score of the fields
\* the entry had when it was added, whatever risk_score the caller had put
\* on the entry, and lies between 0 and 100.
C3_StoredScoreIsComputed ==
    /\ Len(added) = Len(rows)
    /\ \A i \in DOMAIN rows :
           LET e == added[i].fields @@ [risk_score |-> 0, entry_id |-> None]
           IN  /\ rows[i].risk_score # NULL
               /\ IsRounded(SpecClamped(e), rows[i].risk_score[1])
               /\ rows[i].risk_score[1] >= 0
               /\ rows[i].risk_score[1] <= 100000
    /\ ret.op = "add_entry" =>
           LastRow.risk_score = Some(calculate_risk_score([ret.arg EXCEPT !.risk_score = 0]))

C3_Witness ==
    /\ ret.op = "add_entry"
    /\ ret.arg.risk_score = 999000
    /\ LastRow.risk_score = Some(100000)
    /\ Len(rows) = MaxRows

\* the entry as add_entry call k received it, score and id left out
AddedEntry(k) == added[k].fields @@ [risk_score |-> 0, entry_id |-> None]

\* C4: after id = add_entry(e), get_entry(id) returns an entry equal to e in
\* cryptocurrency, risk_level, reporter, report_date, description,
\* market_cap, volatility_index and crowd_sentiment, with entry_id = id > 0
\* and risk_score the independently computed score of e.
C4_StoreRoundTrip ==
    /\ ret.op = "get_entry" =>
           \A k \in DOMAIN added :
               added[k].id = ret.arg =>
                   /\ ret.val # None
                   /\ fields_of(ret.val[1]) = added[k].fields
                   /\ ret.val[1].entry_id = Some(ret.arg)
                   /\ ret.arg > 0
                   /\ IsRounded(SpecClamped(AddedEntry(k)), ret.val[1].risk_score)
    /\ ret.op = "add_entry" =>
           /\ ret.val > 0
           /\ get_entry(rows, ret.val) # None
           /\ fields_of(get_entry(rows, ret.val)[1]) = fields_of(ret.arg)
           /\ get_entry(rows, ret.val)[1].entry_id = Some(ret.val)

C4_Witness ==
    /\ ret.op = "get_entry"
    /\ ret.arg = 2
    /\ ret.val # None
    /\ ret.val[1].crowd_sentiment = None
    /\ ret.val[1].description = ""
    /\ ret.val[1].risk_score = 20120

\* C5: every id add_entry returns is positive and greater than every id
\* returned before, also when the store was opened again with a new
\* Database object in between; no two stored rows share an id.
C5_IdsIncrease ==
    /\ \A k \in DOMAIN added :
           /\ added[k].id > 0
           /\ \A j \in 1..(k - 1) : added[j].id < added[k].id
    /\ \A i, j \in DOMAIN rows : i # j => rows[i].entry_id # rows[j].entry_id
    /\ ret.op = "add_entry" =>
           /\ ret.val = added[Len(added)].id
           /\ ret.val = LastRow.entry_id

C5_Witness ==
    /\ ret.op = "add_entry"
    /\ ret.reopened
    /\ Len(added) >= 2
    /\ ret.val > added[1].id

\* C6: the store is append-only: a step leaves the table as it is or only
\* appends to it; no step modifies or removes a stored row, and
\* get_entry(i) for an id i that add_entry returned gives the same entry
\* after the step as before it.
C6_AppendOnly ==
    [][\/ rows' = rows
       \/ /\ Len(rows') >= Len(rows)
          /\ \A i \in DOMAIN rows : rows'[i] = rows[i]
          /\ \A k \in DOMAIN added :
                 get_entry(rows', added[k].id) = get_entry(rows, added[k].id)]_vars

C6_Witness ==
    /\ ret.op = "get_entry"
    /\ ret.arg = 1
    /\ ret.val # None
    /\ Len(rows) = MaxRows
    /\ jsonFile # None

\* C7: from_dict(to_dict(e)) equals e field for field, for every risk
\* level, every sentiment and no sentiment, with and without entry_id.
C7_ModelRoundTrip ==
    (ret.op = "from_dict" /\ ret.arg = to_dict(entry)) =>
        /\ DOMAIN ret.val = DOMAIN entry
        /\ \A f \in DOMAIN entry : ret.val[f] = entry[f]

C7_Witness ==
    /\ ret.op = "from_dict"
    /\ ret.arg = to_dict(entry)
    /\ entry.crowd_sentiment = None
    /\ entry.entry_id = None
    /\ entry.risk_score = 55125
    /\ ret.val = entry

\* C8: after add_entry(entry) the caller's entry carries the assigned id
\* and the computed score: entry.entry_id is the returned id and
\* entry.risk_score is calculate_risk_score(entry).
C8_CallerEntryUpdated ==
    ret.op = "add_entry" =>
        /\ entry.entry_id = Some(ret.val)
        /\ entry.risk_score = calculate_risk_score(entry)

\* datetime.date comparison
DateLess(a, b) ==
    \/ a.year < b.year
    \/ a.year = b.year /\ a.month < b.month
    \/ a.year = b.year /\ a.month = b.month /\ a.day < b.day

C10_ByCryptoExact ==
    ret.op = "get_entries_by_crypto" =>
        /\ ret.val = SelectSeq(get_all_entries(rows),
                               LAMBDA e : e.cryptocurrency = ret.arg)
        /\ \A i \in DOMAIN ret.val : ret.val[i].cryptocurrency = ret.arg
        /\ \A r \in DOMAIN rows :
               rows[r].cryptocurrency = ret.arg =>
                   Cardinality({i \in DOMAIN ret.val :
                                    ret.val[i].entry_id = Some(rows[r].entry_id)}) = 1

C10_Witness ==
    /\ ret.op = "get_entries_by_crypto"
    /\ ret.arg = "Bitcoin"
    /\ Len(rows) = 3
    /\ Len(ret.val) = 2
    /\ ret.val[1].entry_id = Some(3)
    /\ ret.val[2].entry_id = Some(1)
    /\ rows[2].cryptocurrency = "bitcoin"

EnumValues(enum) == {enum[m] : m \in DOMAIN enum}

\* C11: from_dict fails with ValidationError, and returns no entry, when a
\* required key is missing or when risk_level or a supplied crowd_sentiment
\* holds a string outside its closed set, the empty string included.
C11_MalformedRaisesValidationError ==
    ret.op = "from_dict" =>
        LET d == ret.arg
            malformed ==
                \/ ~ ({"cryptocurrency", "risk_level", "reporter", "report_date"}
                          \subseteq DOMAIN d)
                \/ d.risk_level \notin EnumValues(RiskLevel)
                \/ /\ "crowd_sentiment" \in DOMAIN d
                   /\ d.crowd_sentiment # None
                   /\ d.crowd_sentiment[1] \notin EnumValues(CrowdSentiment)
        IN  malformed => ret.val = [exception |-> "ValidationError"]

\* a row whose risk_level, or non-null crowd_sentiment, is outside its
\* enumeration
Corrupt(row) ==
    \/ row.risk_level \notin EnumValues(RiskLevel)
    \/ /\ row.crowd_sentiment # NULL
       /\ row.crowd_sentiment[1] \notin EnumValues(CrowdSentiment)

\* the rows the reader call in ret reconstructs
RowsRead ==
    IF ret.op = "get_entry" THEN {i \in DOMAIN rows : rows[i].entry_id = ret.arg}
    ELSE IF ret.op = "get_entries_by_crypto"
         THEN {i \in DOMAIN rows : rows[i].cryptocurrency = ret.arg}
    ELSE DOMAIN rows

IsRead == ret.op \in {"get_entry", "get_all_entries", "get_entries_by_crypto"}

\* C12: a reader that reconstructs a row whose risk_level or crowd_sentiment
\* holds a non-null string outside the enumeration (the empty string
\* included) fails with CorruptDataError, and returns no entry.
C12_CorruptRowRaisesCorruptDataError ==
    (IsRead /\ \E i \in RowsRead : Corrupt(rows[i])) =>
        ret.raised = Some("CorruptDataError")

\* C13: a store operation that cannot connect to or commit on the medium
\* reports the failure to its caller as StorageError.
C13_FaultRaisesStorageError ==
    "fault" \in DOMAIN ret => ret.raised = Some("StorageError")

FailedAdd == ret.op = "add_entry" /\ ret.raised # None

\* C14: a failed add_entry leaves the stored rows unchanged, and every entry
\* a reader returns, whenever it runs, is the complete row of a committed
\* add under its id.
C14_AddAllOrNothing ==
    /\ FailedAdd => rows = ret.rows0
    /\ (IsRead /\ ret.raised = None) =>
           \A i \in DOMAIN ret.val :
               \E k \in DOMAIN added :
                   /\ ret.val[i].entry_id = Some(added[k].id)
                   /\ fields_of(ret.val[i]) = added[k].fields
                   /\ ret.val[i].risk_score = calculate_risk_score(ret.val[i])

C14_Witness ==
    /\ FailedAdd
    /\ ret.fault = "commit"
    /\ rows # << >>

\* C15: after a failed add_entry the caller's entry is exactly as it was
\* passed (risk_score and entry_id unchanged), and so is the store.
C15_FailedAddNoSideEffect ==
    FailedAdd => (entry = ret.arg /\ rows = ret.rows0)

\* C16: at every point during an export, and after an export that failed,
\* the destination holds its complete previous content or the complete new
\* array.
C16_ExportAtomic ==
    /\ call.op = "export_to_json" =>
           jsonFile \in {call.file0, Complete(call.data)}
    /\ (ret.op = "export_to_json" /\ "fault" \in DOMAIN ret) =>
           jsonFile \in {ret.file0, Complete(ret.data)}

\* C17: after a successful export the file is a complete array with one
\* object per stored entry, in get_all_entries order (report_date
\* descending); each object has the entry's ISO date, a risk_level among
\* low/medium/high/critical and a crowd_sentiment among
\* bullish/neutral/bearish or null.
C17_ExportContent ==
    (ret.op = "export_to_json" /\ ret.raised = None) =>
        LET items == jsonFile[1].items
            all == get_all_entries(rows)
        IN  /\ jsonFile[1].closed
            /\ Len(items) = Len(rows)
            /\ \A i \in DOMAIN items :
                   /\ items[i].entry_id = all[i].entry_id
                   /\ items[i].report_date = isoformat(all[i].report_date)
                   /\ items[i].risk_level \in EnumValues(RiskLevel)
                   /\ \/ items[i].crowd_sentiment = None
                      \/ items[i].crowd_sentiment[1] \in EnumValues(CrowdSentiment)
            /\ \A i, j \in DOMAIN items :
                   i < j => items[i].report_date >= items[j].report_date

C17_Witness ==
    /\ ret.op = "export_to_json"
    /\ ret.raised = None
    /\ Len(jsonFile[1].items) = MaxRows
    /\ jsonFile[1].items[1].report_date > jsonFile[1].items[MaxRows].report_date
    /\ jsonFile[1].items[1].entry_id[1] > jsonFile[1].items[MaxRows].entry_id[1]
    /\ \E i \in DOMAIN jsonFile[1].items : jsonFile[1].items[i].crowd_sentiment # None

\* C18: constructing Database creates the parent directory and the table;
\* on a file that holds the table it leaves every row and the id counter as
\* they are, and a construction that follows a construction changes nothing.
C18_InitIdempotent ==
    [][ret'.op = "Database" =>
           /\ dirExists'
           /\ tableExists'
           /\ tableExists => (rows' = rows /\ sqlite_sequence' = sqlite_sequence)
           /\ ~ tableExists => (rows' = << >> /\ sqlite_sequence' = 0)
           /\ ret.op = "Database" => UNCHANGED storeVars]_vars

C18_Witness ==
    /\ ret.op = "Database"
    /\ ret.arg = TRUE
    /\ Len(rows) = MaxRows
    /\ sqlite_sequence = MaxRows

\* C19: get_entry(id) for an id no stored row has (never assigned, zero or
\* negative) returns None, raises nothing and leaves the store unchanged.
C19_MissingIdIsNone ==
    [][ret'.op = "get_entry" =>
           /\ UNCHANGED storeVars
           /\ (\A i \in DOMAIN rows : rows[i].entry_id # ret'.arg) =>
                  (ret'.val = None /\ ret'.raised = None)]_vars

C19_Witness ==
    /\ ret.op = "get_entry"
    /\ ret.arg = 0 - 1
    /\ ret.val = None
    /\ ret.raised = None
    /\ rows # << >>

StoredScores == [i \in DOMAIN entries |-> entries[i].risk_score]

\* C20: calculate_average_risk returns 0.0 for an empty list and otherwise
\* the mean of the entries' stored risk_score fields rounded to 2 decimals
\* (stored scores 20, 71, 48 give 46.33), whatever calculate_risk_score
\* would give for the entries.
C20_AverageOfStoredScores ==
    ret.op = "calculate_average_risk" =>
        /\ entries = << >> => ret.val = 0
        /\ entries # << >> =>
               /\ ret.val % 10 = 0
               /\ 2 * (Len(entries) * ret.val - total_score(entries)) \in
                      (0 - 10 * Len(entries))..(10 * Len(entries))
        /\ StoredScores = <<20000, 71000, 48000>> => ret.val = 46330

C20_Witness ==
    /\ ret.op = "calculate_average_risk"
    /\ StoredScores = <<20000, 71000, 48000>>
    /\ ret.val = 46330
    /\ \E i \in DOMAIN entries : entries[i].risk_score # calculate_risk_score(entries[i])

\* names that are the same word up to the case of their letters
CaseClasses == {{"Bitcoin", "bitcoin"}, {"Bit"}}

SameIgnoringCase(a, b) == \E c \in CaseClasses : a \in c /\ b \in c

\* C21: get_risk_by_cryptocurrency returns exactly the entries whose name
\* equals the given one ignoring letter case, in their original order, none
\* on a partial match, and leaves the caller's list as it is.
C21_FilterIgnoringCase ==
    [][ret'.op = "get_risk_by_cryptocurrency" =>
           LET idx == {i \in DOMAIN entries :
                           SameIgnoringCase(entries[i].cryptocurrency, ret'.arg)}
               nth(k) == CHOOSE i \in idx : Cardinality({j \in idx : j <= i}) = k
           IN  /\ entries' = entries
               /\ Len(ret'.val) = Cardinality(idx)
               /\ \A k \in DOMAIN ret'.val : ret'.val[k] = entries[nth(k)]]_vars

C21_Witness ==
    /\ ret.op = "get_risk_by_cryptocurrency"
    /\ ret.arg = "bitcoin"
    /\ Len(entries) = MaxEntries
    /\ Len(ret.val) = 2
    /\ ret.val[1].cryptocurrency = "Bitcoin"
    /\ ret.val[1].entry_id # ret.val[2].entry_id
    /\ \E i \in DOMAIN entries : entries[i].cryptocurrency = "Bit"

Clamp(x) == IF x < 0 THEN 0 ELSE IF x > 100000 THEN 100000 ELSE x

\* C22: with level and sentiment fixed, every volatility_index of 30 or
\* more scores like 30; between 0 and 30 the sum before the clamp is the sum
\* at volatility 0 plus volatility_index; MEDIUM with no sentiment scores
\* 60.0 at volatility 15 and 75.0 at volatility 50.
C22_VolatilitySaturates ==
    Scored =>
        LET e == ret.arg
            at0 == SpecBase(e.risk_level) + SpecSentiment(e.crowd_sentiment)
        IN  /\ e.volatility_index >= 30000 =>
                   ret.val = calculate_risk_score([e EXCEPT !.volatility_index = 30000])
            /\ e.volatility_index \in 0..30000 =>
                   IsRounded(Clamp(at0 + e.volatility_index), ret.val)
            /\ (e.risk_level = "MEDIUM" /\ e.crowd_sentiment = None) =>
                   /\ e.volatility_index = 15000 => ret.val = 60000
                   /\ e.volatility_index = 50000 => ret.val = 75000

C22_Witness ==
    /\ Scored
    /\ ret.arg.risk_level = "MEDIUM"
    /\ ret.arg.crowd_sentiment = None
    /\ ret.arg.volatility_index = 50000
    /\ ret.val = 75000

\* the exact value a call rounds, as a fraction <<numerator, denominator>>
Unrounded ==
    IF Scored THEN <<SpecClamped(ret.arg), 1>>
    ELSE <<total_score(ret.arg), Len(ret.arg)>>

\* C23: calculate_risk_score and calculate_average_risk return values with
\* at most 2 decimals (rounding again changes nothing), and both treat a
\* value half-way between two such values alike: each returns the even one.
C23_SameRounding ==
    (Scored \/ (ret.op = "calculate_average_risk" /\ ret.arg # << >>)) =>
        LET num == Unrounded[1]
            den == Unrounded[2]
        IN  /\ ret.val % 10 = 0
            /\ round2(ret.val) = ret.val
            /\ round2_ratio(ret.val, 1) = ret.val
            /\ 2 * (num % (10 * den)) = 10 * den =>
                   /\ (ret.val \div 10) % 2 = 0
                   /\ 2 * (den * ret.val - num) \in {0 - 10 * den, 10 * den}

C23_Witness ==
    /\ ret.op = "calculate_average_risk"
    /\ StoredScores = <<20000, 20750>>
    /\ ret.val = 20380
    /\ calculate_risk_score(entries[2]) = 20380
    /\ entries[2].volatility_index = 375

\* entries that agree with e on risk_level, volatility_index and
\* crowd_sentiment and differ from it in other fields
SameInputs(e) ==
    {[e EXCEPT !.cryptocurrency = o.name, !.reporter = "bob", !.report_date = o.date,
               !.description = o.text, !.market_cap = o.cap, !.risk_score = o.score,
               !.entry_id = o.id] :
         o \in [name : {"bitcoin", "Bit"}, date : Dates, text : {"note"},
                cap : {0, 1500000}, score : {0, 999000}, id : {None, Some(7)}]}

\* C24: a call of calculate_risk_score changes neither the entry nor any
\* other state, and its result is that of every entry with the same
\* risk_level, volatility_index and crowd_sentiment, whatever the other
\* fields and whatever was called before.
C24_ScorePure ==
    [][ret'.op = "calculate_risk_score" =>
           /\ entry' = entry
           /\ ret'.arg = entry
           /\ UNCHANGED <<storeVars, callVars>>
           /\ \A e \in SameInputs(entry) : calculate_risk_score(e) = ret'.val]_vars

C24_Witness ==
    /\ Scored
    /\ entry = ret.arg
    /\ entry.risk_score = 999000
    /\ entry.entry_id = Some(7)
    /\ entry.market_cap = 1500000
    /\ entry.risk_level = "HIGH"
    /\ entry.volatility_index = 12346
    /\ ret.val = 82350

\* the canonical strings, written out from section 3 of the specification
CanonicalLevel(level) ==
    CASE level = "LOW" -> "low"
      [] level = "MEDIUM" -> "medium"
      [] level = "HIGH" -> "high"
      [] level = "CRITICAL" -> "critical"

CanonicalSentiment(s) ==
    CASE s = "BULLISH" -> "bullish"
      [] s = "NEUTRAL" -> "neutral"
      [] s = "BEARISH" -> "bearish"

\* C25: to_dict writes risk_level and a present crowd_sentiment as their
\* lowercase value, report_date as its YYYY-MM-DD string, and an absent
\* crowd_sentiment as None, never as a string.
C25_ToDictCanonical ==
    ret.op = "to_dict" =>
        /\ ret.val.risk_level = CanonicalLevel(ret.arg.risk_level)
        /\ ret.val.report_date =
               ret.arg.report_date.year * 10000 + ret.arg.report_date.month * 100
                   + ret.arg.report_date.day
        /\ ret.arg.crowd_sentiment # None =>
               ret.val.crowd_sentiment = Some(CanonicalSentiment(ret.arg.crowd_sentiment[1]))
        /\ ret.arg.crowd_sentiment = None => ret.val.crowd_sentiment = None

C25_Witness ==
    /\ ret.op = "to_dict"
    /\ ret.arg.crowd_sentiment = None
    /\ ret.val.crowd_sentiment = None
    /\ ret.val.risk_level = "critical"
    /\ ret.val.report_date = 20241203

\* the stored row an entry a reader returned was made from
RowOf(x) == rows[CHOOSE i \in DOMAIN rows : rows[i].entry_id = x.entry_id[1]]

\* C26: an entry a reader reconstructs from a row with NULL in an optional
\* column has the model default there: "" for description, 0.0 for
\* market_cap and volatility_index, None for crowd_sentiment.
C26_NullToDefault ==
    (IsRead /\ ret.raised = None) =>
        \A i \in DOMAIN ret.val :
            LET x == ret.val[i]
                r == RowOf(x)
            IN  /\ r.description = NULL => x.description = ""
                /\ r.market_cap = NULL => x.market_cap = 0
                /\ r.volatility_index = NULL => x.volatility_index = 0
                /\ r.crowd_sentiment = NULL => x.crowd_sentiment = None

C26_Witness ==
    /\ ret.op = "get_all_entries"
    /\ ret.raised = None
    /\ Len(ret.val) = MaxExternalRows
    /\ rows[1].description = NULL
    /\ rows[1].volatility_index = NULL
    /\ rows[1].crowd_sentiment = NULL
    /\ ret.val[1].description = ""
    /\ ret.val[1].volatility_index = 0
    /\ ret.val[1].crowd_sentiment = None
    /\ \E i \in DOMAIN rows : rows[i].volatility_index # NULL

\* C27: with add_entry calls of two writers interleaving on one file, the
\* ids the calls return are all different, and the row under the id a call
\* returned holds that caller's entry.
C27_ConcurrentIdsUnique ==
    /\ \A j, k \in DOMAIN added : j # k => added[j].id # added[k].id
    /\ \A k \in DOMAIN added :
           /\ get_entry(rows, added[k].id) # None
           /\ fields_of(get_entry(rows, added[k].id)[1]) = added[k].fields
    /\ (ret.op = "add_entry" /\ ret.raised = None) =>
           /\ ret.val = added[Len(added)].id
           /\ added[Len(added)].writer = ret.writer
           /\ added[Len(added)].fields = fields_of(ret.arg)

C27_Witness ==
    /\ Len(added) = MaxWriterRows
    /\ \E j, k \in DOMAIN added :
           /\ added[j].writer # added[k].writer
           /\ added[j].overlapped
           /\ added[k].overlapped

\* C28: every store operation closes the handle it opened before it
\* returns, on success and on failure: when no operation is running no
\* handle is open.
C28_HandlesReleased ==
    call = Idle => handles = NoHandles

\* C29: the volatility contribution lies between 0 and 30 points: the score
\* of an entry, negative volatility_index included, is not below the score
\* of the same entry with volatility_index 0 and at most 30 above it.
C29_VolatilityContributionBounded ==
    Scored =>
        LET at0 == calculate_risk_score([ret.arg EXCEPT !.volatility_index = 0])
        IN  /\ ret.val >= at0
            /\ ret.val <= at0 + 30000

\* C30: a successful add_entry appends exactly one row, under an id no row
\* had, and leaves every other row as it was, also when the entry carries
\* the entry_id of a stored row; the entry's own entry_id plays no part.
C30_AddAlwaysInserts ==
    [][(ret'.op = "add_entry" /\ ret'.raised = None) =>
           /\ Len(rows') = Len(rows) + 1
           /\ \A i \in DOMAIN rows : rows'[i] = rows[i]
           /\ rows'[Len(rows')].entry_id = ret'.val
           /\ \A i \in DOMAIN rows : rows[i].entry_id < ret'.val
           /\ ret'.val = next_entry_id(sqlite_sequence)]_vars

C30_Witness ==
    /\ ret.op = "add_entry"
    /\ ret.raised = None
    /\ ret.arg.entry_id = Some(1)
    /\ ret.val = MaxRows
    /\ Len(rows) = MaxRows
    /\ rows[1].entry_id = 1
    /\ rows[1].risk_level = "low"
    /\ rows[MaxRows].risk_level = "critical"

====
